---- MODULE Spec2Model ----
(***************************************************************************)
(* code-reviewer-mcp: the review_pull_request tool handler of              *)
(* src/index.ts (argument validation, diff fetch and reduction, prompt,    *)
(* model call, response parsing, review post).                             *)
(*                                                                         *)
(* Text is a sequence of atoms.  An atom is a one-character string (":",   *)
(* " ", "-", a digit, a line terminator) or a word: a string of ordinary   *)
(* characters that holds no colon, digit, dash or line terminator and      *)
(* neither begins nor ends with whitespace ("GENERAL", "src/x.ts").        *)
(* The operations the handler applies to text (split, match, trim,         *)
(* startsWith, ===) only look at the characters that are atoms of their    *)
(* own, so they act on a sequence of atoms as they act on the string.      *)
(***************************************************************************)
EXTENDS Integers, Sequences, FiniteSets, TLC

LF == "\n"
CR == "\r"
Colon == ":"
Dash == "-"
Space == " "

\* String.prototype.trim strips white space and line terminators
WhiteSpace == {Space, "\t", CR, LF}
\* the characters the regular expression's . does not match
LineTerminators == {LF, CR}
\* the characters \d matches
Digits == {"0", "1", "2", "3", "4", "5", "6", "7", "8", "9"}

DigitVal(d) ==
  CASE d = "0" -> 0 [] d = "1" -> 1 [] d = "2" -> 2 [] d = "3" -> 3
    [] d = "4" -> 4 [] d = "5" -> 5 [] d = "6" -> 6 [] d = "7" -> 7
    [] d = "8" -> 8 [] d = "9" -> 9

----------------------------------------------------------------------------
(* Bounds of the model *)

\* longest response text enumerated atom by atom
MaxLen == 4
\* longest line specification enumerated in a three-field line
MaxSpecLen == 3
\* most lines of a response assembled from the sample lines
MaxLines == 2

----------------------------------------------------------------------------
(* String operations *)

RECURSIVE trimStart(_)
trimStart(s) ==
  IF s = <<>> THEN s
  ELSE IF Head(s) \in WhiteSpace THEN trimStart(Tail(s)) ELSE s

RECURSIVE trimEnd(_)
trimEnd(s) ==
  IF s = <<>> THEN s
  ELSE IF s[Len(s)] \in WhiteSpace THEN trimEnd(SubSeq(s, 1, Len(s) - 1)) ELSE s

trim(s) == trimEnd(trimStart(s))

\* s.split(sep): the pieces between the occurrences of sep (always >= 1 piece)
RECURSIVE split(_, _)
split(s, sep) ==
  IF \E k \in 1..Len(s) : s[k] = sep
  THEN LET k == CHOOSE k \in 1..Len(s) :
                  s[k] = sep /\ \A j \in 1..(k - 1) : s[j] # sep
       IN  <<SubSeq(s, 1, k - 1)>> \o split(SubSeq(s, k + 1, Len(s)), sep)
  ELSE <<s>>

\* parseInt(ds, 10) of a string of digits
RECURSIVE parseInt(_)
parseInt(ds) ==
  IF ds = <<>> THEN 0
  ELSE 10 * parseInt(SubSeq(ds, 1, Len(ds) - 1)) + DigitVal(ds[Len(ds)])

IsDigits(s) == s # <<>> /\ \A k \in 1..Len(s) : s[k] \in Digits

----------------------------------------------------------------------------
(* The response grammar *)

NoMatch == [matched |-> FALSE, g1 |-> <<>>, g2 |-> <<>>, g3 |-> <<>>]

\* line.match(/^([^:]+):([^:]+):(.*)$/)
commentMatch(line) ==
  LET colons == {k \in 1..Len(line) : line[k] = Colon}
  IN  IF Cardinality(colons) < 2 THEN NoMatch
      ELSE LET c1 == CHOOSE k \in colons : \A j \in colons : k <= j
               c2 == CHOOSE k \in colons \ {c1} : \A j \in colons \ {c1} : k <= j
               rest == SubSeq(line, c2 + 1, Len(line))
           IN  IF /\ c1 > 1
                  /\ c2 > c1 + 1
                  /\ \A k \in 1..Len(rest) : rest[k] \notin LineTerminators
               THEN [matched |-> TRUE,
                     g1 |-> SubSeq(line, 1, c1 - 1),
                     g2 |-> SubSeq(line, c1 + 1, c2 - 1),
                     g3 |-> rest]
               ELSE NoMatch

\* lineNumberInfo.match(/^(\d+)-(\d+)$/)
rangeMatch(info) ==
  LET dashes == {k \in 1..Len(info) : info[k] = Dash}
  IN  IF Cardinality(dashes) # 1 THEN NoMatch
      ELSE LET d == CHOOSE k \in dashes : TRUE
               a == SubSeq(info, 1, d - 1)
               b == SubSeq(info, d + 1, Len(info))
           IN  IF IsDigits(a) /\ IsDigits(b)
               THEN [matched |-> TRUE, g1 |-> a, g2 |-> b, g3 |-> <<>>]
               ELSE NoMatch

\* a pattern that takes one digit only: /^(\d)$/
singleLineMatchOneDigit(info) ==
  IF IsDigits(info) /\ Len(info) = 1
  THEN [matched |-> TRUE, g1 |-> info, g2 |-> <<>>, g3 |-> <<>>]
  ELSE NoMatch

\* lineNumberInfo.match(/^(\d+)$/)
singleLineMatch(info) ==
  IF IsDigits(info)
  THEN [matched |-> TRUE, g1 |-> info, g2 |-> <<>>, g3 |-> <<>>]
  ELSE NoMatch

RangeComment(filePath, commentText, startLine, endLine) ==
  [path |-> filePath, body |-> commentText, start_line |-> startLine,
   line |-> endLine, side |-> "RIGHT", start_side |-> "RIGHT"]

SingleComment(filePath, commentText, lineNumber) ==
  [path |-> filePath, body |-> commentText, line |-> lineNumber,
   side |-> "RIGHT"]

\* a fallback that keeps the comment text only
FallbackLineTextOnly(filePath, lineNumberInfo, commentText) == commentText \o <<LF>>

\* the text appended for a line whose line specification does not parse
FallbackLine(filePath, lineNumberInfo, commentText) ==
  <<"File", Colon, Space>> \o filePath \o <<",", Space, "Line Info", Colon, Space>>
    \o lineNumberInfo \o <<Colon, Space>> \o commentText \o <<LF>>

\* One iteration of the loop over the response lines: acc is the pair of
\* accumulators (comments, generalCommentBody) and the result is the pair
\* after the line.
ParseLine(line, acc) ==
  LET m == commentMatch(line)
  IN  IF m.matched
      THEN LET filePath == trim(m.g1)
               lineNumberInfo == trim(m.g2)
               commentText == trim(m.g3)
           IN  IF filePath = <<"GENERAL">>
               THEN [acc EXCEPT !.generalCommentBody = @ \o commentText \o <<LF>>]
               ELSE LET rm == rangeMatch(lineNumberInfo)
                        sm == singleLineMatch(lineNumberInfo)
                    IN  IF rm.matched
                        THEN [acc EXCEPT !.comments =
                                Append(@, RangeComment(filePath, commentText,
                                          parseInt(rm.g1), parseInt(rm.g2)))]
                        ELSE IF sm.matched
                        THEN [acc EXCEPT !.comments =
                                Append(@, SingleComment(filePath, commentText,
                                          parseInt(sm.g1)))]
                        ELSE [acc EXCEPT !.generalCommentBody =
                                @ \o FallbackLine(filePath, lineNumberInfo, commentText)]
      ELSE [acc EXCEPT !.generalCommentBody = @ \o line \o <<LF>>]

EmptyAcc == [comments |-> <<>>, generalCommentBody |-> <<>>]

\* a loop that takes the lines from the last to the first
RECURSIVE ParseLinesBackwards(_, _)
ParseLinesBackwards(ls, acc) ==
  IF ls = <<>> THEN acc
  ELSE ParseLine(Head(ls), ParseLinesBackwards(Tail(ls), acc))

\* the whole loop: for (const line of lines) ...
RECURSIVE ParseLines(_, _)
ParseLines(ls, acc) ==
  IF ls = <<>> THEN acc ELSE ParseLines(Tail(ls), ParseLine(Head(ls), acc))

DefaultBody == <<"Automated code review">>

\* a summary that is trimmed at its end only: trimEnd() in place of trim()
ReviewBodyTrimEnd(generalCommentBody) ==
  IF trimEnd(generalCommentBody) = <<>> THEN DefaultBody
  ELSE trimEnd(generalCommentBody)

\* a default that is taken for the empty buffer only, before the trim
ReviewBodyDefaultIfEmpty(generalCommentBody) ==
  IF generalCommentBody = <<>> THEN DefaultBody ELSE trim(generalCommentBody)

\* a summary without the default: generalCommentBody.trim()
ReviewBodyNoDefault(generalCommentBody) == trim(generalCommentBody)

\* generalCommentBody.trim() || 'Automated code review'
ReviewBody(generalCommentBody) ==
  IF trim(generalCommentBody) = <<>> THEN DefaultBody ELSE trim(generalCommentBody)

\* the parser as a function of the response text (lines 215-272)
ParseResponse(text) ==
  LET acc == ParseLines(split(text, LF), EmptyAcc)
  IN  [summary |-> ReviewBody(acc.generalCommentBody),
       comments |-> acc.comments,
       generalCommentBody |-> acc.generalCommentBody]

----------------------------------------------------------------------------
(* The diff and its reduction.  A diff is run-length encoded: a sequence   *)
(* of chunks [ch, n], n >= 1, each standing for n characters: a run of n   *)
(* '+', of n '-', of n other characters ("c"), one line feed, or the first *)
(* n characters of the literal "diff --git".                               *)

MaxDiffChars == 5000
Marker == "diff --git"
MarkerLen == 10

Run(c, n) == [ch |-> c, n |-> n]
NewLine == Run(LF, 1)

RECURSIVE textLength(_)
textLength(d) == IF d = <<>> THEN 0 ELSE Head(d).n + textLength(Tail(d))

\* diff.includes('diff --git')
includesMarker(d) == \E k \in 1..Len(d) : d[k].ch = Marker /\ d[k].n = MarkerLen

\* line.startsWith(c) for a one-character c
startsWith(line, c) == line # <<>> /\ line[1].ch = c

\* a filter that also keeps the hunk's context lines (those that begin
\* with an ordinary character)
KeepLineAndContext(line) ==
  startsWith(line, "+") \/ startsWith(line, "-") \/ startsWith(line, "c")

\* line 141: the filter's predicate
KeepLine(line) == startsWith(line, "+") \/ startsWith(line, "-")

\* lines.join('\n')
RECURSIVE join(_)
join(ls) ==
  IF ls = <<>> THEN <<>>
  ELSE IF Len(ls) = 1 THEN ls[1]
  ELSE ls[1] \o <<NewLine>> \o join(Tail(ls))

\* s.substring(0, k)
RECURSIVE substring(_, _)
substring(d, k) ==
  IF d = <<>> \/ k <= 0 THEN <<>>
  ELSE IF Head(d).n <= k THEN <<Head(d)>> \o substring(Tail(d), k - Head(d).n)
  ELSE <<[Head(d) EXCEPT !.n = k]>>

\* lines 137-144
ReduceDiff(data) ==
  IF includesMarker(data) /\ textLength(data) > MaxDiffChars
  THEN substring(join(SelectSeq(split(data, NewLine), KeepLine)), MaxDiffChars)
  ELSE data

\* lines 156-167: the template with the diff embedded
BuildPrompt(d) ==
  [head |-> "Please review the following GitHub pull request changes:",
   diff |-> d,
   format |-> "FILE_PATH:LINE_NUMBER(S): COMMENT_TEXT"]

EmptyPrompt == BuildPrompt(<<>>)

----------------------------------------------------------------------------
(* JavaScript values of the tool arguments *)

Undefined == [t |-> "undefined", v |-> ""]
Str(s) == [t |-> "string", v |-> s]
Num(s) == [t |-> "number", v |-> s]

\* !x is false
Truthy(x) ==
  CASE x.t = "string" -> x.v # ""
    [] x.t = "number" -> x.v \notin {"0", "NaN"}
    [] OTHER -> FALSE

ToolName == "review_pull_request"

----------------------------------------------------------------------------
(* Inputs *)

\* a text of at most n atoms of the alphabet S, the empty text excluded
TextsUpTo(S, n) == UNION {[1..k -> S] : k \in 1..n}

Alphabet == {"a", "GENERAL", Colon, "1", "2", Dash, Space, CR, LF}

\* every response of at most MaxLen atoms
ShortTexts == TextsUpTo(Alphabet, MaxLen)

\* one-line responses <path>:<spec>:<body>
Paths == {<<"a">>, <<"GENERAL">>, <<Space, "a", Space>>, <<Space, "GENERAL">>}
LineSpecs == TextsUpTo({"1", "2", Dash}, MaxSpecLen) \cup {<<Space, "1">>, <<"a">>}
Bodies == {<<>>, <<"b">>, <<Space, "b", Space>>, <<"b", CR>>}
GrammarLines == {p \o <<Colon>> \o s \o <<Colon>> \o b :
                   p \in Paths, s \in LineSpecs, b \in Bodies}

\* one line of each kind the parser tells apart
SampleLines ==
  { <<"a", Colon, "1", Colon, Space, "b">>,
    <<"GENERAL", Colon, Space, "b">>,
    <<"GENERAL", Colon, "a", Colon, "b">>,
    <<Space, "b", Space>>,
    <<>> }

\* the lines, each followed by a line feed
RECURSIVE Unlines(_)
Unlines(ls) == IF ls = <<>> THEN <<>> ELSE Head(ls) \o <<LF>> \o Unlines(Tail(ls))

\* responses of 1..MaxLines sample lines, with and without the final line feed
SampleTexts ==
  LET lss == UNION {[1..k -> SampleLines] : k \in 1..MaxLines}
      all == {Unlines(ls) : ls \in lss}
                \cup {SubSeq(Unlines(ls), 1, Len(Unlines(ls)) - 1) : ls \in lss}
  IN  all \ {<<>>}

\* the response of the end-to-end scenario
ScenarioResponse ==
  <<"src/x.ts", Colon, "5", Colon, Space, "add null check", LF,
    "GENERAL", Colon, Space, "nice work", LF,
    "badline", LF>>

\* two different comments and two different general fragments, interleaved
InterleavedResponse ==
  <<"a", Colon, "1", Colon, "b", LF,
    "GENERAL", Colon, "a", Colon, "b", LF,
    "a", Colon, "2", Dash, "1", Colon, "c", LF,
    "a", Colon, "b", Colon, "c", LF,
    "a", Colon, "2", Colon, "b">>

\* only blank and white-space lines
BlankResponse == <<Space, LF, CR, LF, Space>>

ParseTexts ==
  ShortTexts \cup GrammarLines \cup SampleTexts
    \cup {ScenarioResponse, InterleavedResponse, BlankResponse}

\* most chunks of an enumerated diff
MaxChunks == 5

DiffChunks ==
  { Run(Marker, MarkerLen), NewLine,
    Run("+", 1), Run("+", MaxDiffChars - 1), Run("-", 1),
    Run("c", 1), Run("c", MaxDiffChars - 1) }

Diffs == TextsUpTo(DiffChunks, MaxChunks)

\* the tool invocations: any name, arguments absent or an object whose
\* three fields are absent, of the declared type or of another type
OwnerVals == {Undefined, Str(""), Str("octo"), Num("42")}
RepoVals == {Undefined, Str(""), Str("repo"), Num("42")}
PullVals == {Undefined, Num("0"), Num("7"), Num("1.5"), Str("7")}

Requests ==
  {[name |-> n, hasArgs |-> TRUE, owner |-> o, repo |-> r, pull_number |-> q] :
     n \in {ToolName, "other_tool"}, o \in OwnerVals, r \in RepoVals, q \in PullVals}
  \cup
  {[name |-> n, hasArgs |-> FALSE, owner |-> Undefined, repo |-> Undefined,
    pull_number |-> Undefined] : n \in {ToolName, "other_tool"}}

SmallDiff == <<Run(Marker, MarkerLen), NewLine, Run("+", 1), Run("c", 1)>>
LargeDiff ==
  <<Run(Marker, MarkerLen), NewLine, Run("+", MaxDiffChars - 1), NewLine,
    Run("c", 1), NewLine, Run("-", 1)>>
LargePlainText == <<Run("c", MaxDiffChars - 1), Run("c", 1), Run("c", 1)>>

\* what octokit.pulls.get can come back with
FetchOutcomes ==
  {[ok |-> TRUE, type |-> "string", data |-> d, message |-> ""] :
     d \in {SmallDiff, LargeDiff, LargePlainText, <<>>}}
  \cup {[ok |-> TRUE, type |-> "object", data |-> <<>>, message |-> ""]}
  \cup {[ok |-> FALSE, type |-> "none", data |-> <<>>, message |-> m] :
          m \in {"Not Found", "timeout"}}

PipelineResponses ==
  {ScenarioResponse, InterleavedResponse, BlankResponse,
   <<"a", Colon, "1", Dash, "2", Colon, "b", LF>>,
   <<"a", Colon, "b", Colon, "b", LF>>}
  \cup {Unlines(<<l>>) : l \in SampleLines}
  \cup GrammarLines \cup SampleTexts

\* what axios.post can come back with: a failure, or a success whose body
\* has the completion text (possibly the empty string), a content that is
\* not a string, or lacks the path data.choices[0].message.content at some
\* step
ResponseShapes ==
  {"no_data", "no_choices", "empty_choices", "no_message", "no_content",
   "number_content"}

ModelOutcomes ==
  {[ok |-> TRUE, shape |-> "text", content |-> t, message |-> ""] :
     t \in PipelineResponses \cup {<<>>}}
  \cup {[ok |-> TRUE, shape |-> sh, content |-> <<>>, message |-> ""] :
          sh \in ResponseShapes}
  \cup {[ok |-> FALSE, shape |-> "none", content |-> <<>>, message |-> m] :
          m \in {"timeout of 60000ms exceeded", "Network Error"}}

PostOutcomes ==
  {[ok |-> TRUE, message |-> ""], [ok |-> FALSE, message |-> "Validation Failed"]}

----------------------------------------------------------------------------
(* State *)

VARIABLES
  pc,                  \* where the handler (or the function applied) stands
  request,             \* the tool invocation being handled
  data,                \* the body octokit.pulls.get returned
  response,            \* the body axios.post returned
  diff,                \* the handler's diff, after reduction
  prompt,              \* the prompt sent to the model
  llmResponseContent,  \* the completion text
  lines,               \* llmResponseContent.split('\n')
  idx,                 \* the number of lines the loop has consumed
  comments,            \* the positioned comments
  generalCommentBody,  \* the general-comment buffer
  reviewBody,          \* the summary of the review
  calls,               \* the external calls made, in order
  review,              \* the arguments of create_pull_request_review
  result,              \* what the handler returned or threw
  githubPostError,     \* the message of the error the poster threw ("" if none)
  pair,                \* two responses (concatenation)
  parsed               \* their parses and the parse of their concatenation

vars == <<pc, request, data, response, diff, prompt, llmResponseContent, lines, idx,
          comments, generalCommentBody, reviewBody, calls, review, result,
          githubPostError, pair, parsed>>

NoRequest ==
  [name |-> "", hasArgs |-> FALSE, owner |-> Undefined, repo |-> Undefined,
   pull_number |-> Undefined]
NoResponse == [shape |-> "none", content |-> <<>>]
NoResult == [kind |-> "none", code |-> "", message |-> <<>>]
NoReview == [posted |-> FALSE, body |-> <<>>, comments |-> <<>>]

McpError(code, message) == [kind |-> "McpError", code |-> code, message |-> message]

\* lines 282-287
SuccessResult(req) ==
  [kind |-> "content", code |-> "",
   message |-> <<"Code review completed and comments posted to GitHub PR #",
                 req.pull_number.v, ".">>]

\* lines 300-306: every failure inside the outer try is wrapped
InternalError(message) ==
  McpError("InternalError", <<"Failed to review pull request: ">> \o message)

----------------------------------------------------------------------------
(* The handler of CallToolRequestSchema.  It is one asynchronous function:  *)
(* each action runs it from one await to the next.                          *)

Init ==
  /\ pc = "idle"
  /\ request = NoRequest
  /\ data = <<>>
  /\ response = NoResponse
  /\ diff = <<>>
  /\ prompt = EmptyPrompt
  /\ llmResponseContent = <<>>
  /\ lines = <<>>
  /\ idx = 0
  /\ comments = <<>>
  /\ generalCommentBody = <<>>
  /\ reviewBody = <<>>
  /\ calls = <<>>
  /\ review = NoReview
  /\ result = NoResult
  /\ githubPostError = ""
  /\ pair = <<>>
  /\ parsed = <<>>

\* line 110: !owner || !repo || !pull_number is false
ArgsAccepted(req) ==
  Truthy(req.owner) /\ Truthy(req.repo) /\ Truthy(req.pull_number)

\* lines 88-129: the checks of the invocation, then the diff is requested
CallTool(req) ==
  /\ pc = "idle"
  /\ request' = req
  /\ IF req.name # ToolName
     THEN /\ pc' = "error"
          /\ result' = McpError("MethodNotFound", <<"Unknown tool: ", req.name>>)
          /\ calls' = calls
     ELSE IF ~req.hasArgs
     THEN /\ pc' = "error"
          /\ result' = McpError("InvalidParams", <<"Invalid arguments object">>)
          /\ calls' = calls
     ELSE IF ~ArgsAccepted(req)
     THEN /\ pc' = "error"
          /\ result' = McpError("InvalidParams",
                          <<"Missing required parameters: owner, repo, pull_number">>)
          /\ calls' = calls
     ELSE /\ pc' = "fetching"
          /\ result' = result
          /\ calls' = Append(calls, "pulls.get")
  /\ UNCHANGED <<data, response, diff, prompt, llmResponseContent, lines, idx,
                 comments, generalCommentBody, reviewBody, review, githubPostError, pair, parsed>>

\* a handler that goes on when the fetch threw
FetchSucceededOrThrew(resp) == ~resp.ok \/ (resp.type = "string" /\ resp.data # <<>>)

\* lines 122-134: the call resolved and its body is a non-empty string
FetchSucceeded(resp) == resp.ok /\ resp.type = "string" /\ resp.data # <<>>

\* lines 131-153: the message of the error the inner catch rethrows
FetchErrorMessage(resp) ==
  <<"GitHub API error: ",
    IF resp.ok THEN "Received invalid diff format from GitHub API" ELSE resp.message>>

\* lines 122-193: the diff arrives (or the call fails), is reduced and
\* embedded in the prompt, and the model is called
FetchReturns(resp) ==
  /\ pc = "fetching"
  /\ IF FetchSucceeded(resp)
     THEN /\ data' = resp.data
          /\ diff' = ReduceDiff(resp.data)
          /\ prompt' = BuildPrompt(ReduceDiff(resp.data))
          /\ calls' = Append(calls, "axios.post")
          /\ pc' = "calling_model"
          /\ result' = result
     ELSE /\ pc' = "error"
          /\ result' = InternalError(FetchErrorMessage(resp))
          /\ UNCHANGED <<data, diff, prompt, calls>>
  /\ UNCHANGED <<request, response, llmResponseContent, lines, idx, comments,
                 generalCommentBody, reviewBody, review, githubPostError, pair, parsed>>

\* a check that the content is there, not that it is non-empty:
\* content !== undefined
HasContentDefined(resp) == resp.shape \in {"number_content", "text"}

\* line 201: response.data?.choices?.[0]?.message?.content is truthy
HasContent(resp) ==
  \/ resp.shape = "number_content"
  \/ resp.shape = "text" /\ resp.content # <<>>

\* lines 173-280: the completion arrives (or the call fails); its shape is
\* checked, the text is parsed and the review is sent to the poster
ModelReturns(resp) ==
  /\ pc = "calling_model"
  /\ response' = IF resp.ok THEN [shape |-> resp.shape, content |-> resp.content]
                  ELSE response
  /\ IF ~resp.ok
     THEN /\ pc' = "error"
          /\ result' = InternalError(<<resp.message>>)
          /\ UNCHANGED <<llmResponseContent, lines, idx, comments,
                         generalCommentBody, reviewBody, calls, review>>
     ELSE IF ~HasContent(resp)
     THEN /\ pc' = "error"
          /\ result' = InternalError(<<"Invalid response format from OpenRouter API">>)
          /\ UNCHANGED <<llmResponseContent, lines, idx, comments,
                         generalCommentBody, reviewBody, calls, review>>
     ELSE IF resp.shape # "text"
     THEN \* content is not a string: content.split is not a function
          /\ pc' = "error"
          /\ result' = InternalError(<<"llmResponseContent.split is not a function">>)
          /\ UNCHANGED <<llmResponseContent, lines, idx, comments,
                         generalCommentBody, reviewBody, calls, review>>
     ELSE LET out == ParseResponse(resp.content)
          IN  /\ llmResponseContent' = resp.content
              /\ lines' = split(resp.content, LF)
              /\ idx' = Len(split(resp.content, LF))
              /\ comments' = out.comments
              /\ generalCommentBody' = out.generalCommentBody
              /\ reviewBody' = out.summary
              /\ review' = [posted |-> TRUE, body |-> out.summary,
                            comments |-> out.comments]
              /\ calls' = Append(calls, "create_pull_request_review")
              /\ pc' = "posting"
              /\ result' = result
  /\ UNCHANGED <<request, data, diff, prompt, githubPostError, pair, parsed>>

\* a handler whose catch of the poster's error logs it and returns the
\* success result all the same
PostReturnsSwallowed(resp) ==
  /\ pc = "posting"
  /\ pc' = "done"
  /\ result' = SuccessResult(request)
  /\ githubPostError' = IF resp.ok THEN githubPostError ELSE resp.message
  /\ UNCHANGED <<request, data, response, diff, prompt, llmResponseContent,
                 lines, idx, comments, generalCommentBody, reviewBody, calls,
                 review, pair, parsed>>

\* lines 273-293: the poster answers
PostReturns(resp) ==
  /\ pc = "posting"
  /\ IF resp.ok
     THEN /\ pc' = "done"
          /\ result' = SuccessResult(request)
          /\ githubPostError' = githubPostError
     ELSE /\ pc' = "error"
          /\ githubPostError' = resp.message
          /\ result' = InternalError(<<"Failed to post review comments to GitHub: ",
                                       resp.message>>)
  /\ UNCHANGED <<request, data, response, diff, prompt, llmResponseContent,
                 lines, idx, comments, generalCommentBody, reviewBody, calls,
                 review, pair, parsed>>

Next ==
  \/ \E req \in Requests : CallTool(req)
  \/ \E resp \in FetchOutcomes : FetchReturns(resp)
  \/ \E resp \in ModelOutcomes : ModelReturns(resp)
  \/ \E resp \in PostOutcomes : PostReturns(resp)

Spec == Init /\ [][Next]_vars

----------------------------------------------------------------------------
(* The parser on its own: the loop of lines 215-272 over every bounded      *)
(* response text, one iteration per step.                                   *)

InitParse ==
  /\ pc = "parse_begin"
  /\ llmResponseContent \in ParseTexts
  /\ request = NoRequest
  /\ data = <<>>
  /\ response = NoResponse
  /\ diff = <<>>
  /\ prompt = EmptyPrompt
  /\ lines = <<>>
  /\ idx = 0
  /\ comments = <<>>
  /\ generalCommentBody = <<>>
  /\ reviewBody = <<>>
  /\ calls = <<>>
  /\ review = NoReview
  /\ result = NoResult
  /\ githubPostError = ""
  /\ pair = <<>>
  /\ parsed = <<>>

\* lines 215-218
ParseBegin ==
  /\ pc = "parse_begin"
  /\ lines' = split(llmResponseContent, LF)
  /\ idx' = 0
  /\ comments' = <<>>
  /\ generalCommentBody' = <<>>
  /\ pc' = "parse_loop"
  /\ UNCHANGED <<request, data, response, diff, prompt, llmResponseContent,
                 reviewBody, calls, review, result, githubPostError, pair, parsed>>

\* lines 220-266, one iteration
ParseStep ==
  /\ pc = "parse_loop"
  /\ idx < Len(lines)
  /\ LET acc == ParseLine(lines[idx + 1],
                  [comments |-> comments, generalCommentBody |-> generalCommentBody])
     IN  /\ comments' = acc.comments
         /\ generalCommentBody' = acc.generalCommentBody
  /\ idx' = idx + 1
  /\ UNCHANGED <<pc, request, data, response, diff, prompt, llmResponseContent,
                 lines, reviewBody, calls, review, result, githubPostError, pair, parsed>>

\* lines 272-280: the review that is handed to the poster
ParseEnd ==
  /\ pc = "parse_loop"
  /\ idx = Len(lines)
  /\ reviewBody' = ReviewBody(generalCommentBody)
  /\ review' = [posted |-> FALSE, body |-> ReviewBody(generalCommentBody),
                comments |-> comments]
  /\ pc' = "parsed"
  /\ UNCHANGED <<request, data, response, diff, prompt, llmResponseContent,
                 lines, idx, comments, generalCommentBody, calls, result,
                 githubPostError, pair, parsed>>

NextParse == ParseBegin \/ ParseStep \/ ParseEnd

SpecParse == InitParse /\ [][NextParse]_vars

----------------------------------------------------------------------------
(* The diff reduction on its own, over every bounded diff *)

InitReduce ==
  /\ pc = "reduce"
  /\ data \in Diffs
  /\ request = NoRequest
  /\ response = NoResponse
  /\ diff = <<>>
  /\ prompt = EmptyPrompt
  /\ llmResponseContent = <<>>
  /\ lines = <<>>
  /\ idx = 0
  /\ comments = <<>>
  /\ generalCommentBody = <<>>
  /\ reviewBody = <<>>
  /\ calls = <<>>
  /\ review = NoReview
  /\ result = NoResult
  /\ githubPostError = ""
  /\ pair = <<>>
  /\ parsed = <<>>

\* lines 137-167
Reduce ==
  /\ pc = "reduce"
  /\ diff' = ReduceDiff(data)
  /\ prompt' = BuildPrompt(ReduceDiff(data))
  /\ pc' = "reduced"
  /\ UNCHANGED <<request, data, response, llmResponseContent, lines, idx,
                 comments, generalCommentBody, reviewBody, calls, review,
                 result, githubPostError, pair, parsed>>

NextReduce == Reduce

SpecReduce == InitReduce /\ [][NextReduce]_vars

----------------------------------------------------------------------------
(* The parser on two responses and on their concatenation *)

ConcatTexts == SampleTexts

InitConcat ==
  /\ pc = "concat"
  /\ pair \in ConcatTexts \X ConcatTexts
  /\ request = NoRequest
  /\ data = <<>>
  /\ response = NoResponse
  /\ diff = <<>>
  /\ prompt = EmptyPrompt
  /\ llmResponseContent = <<>>
  /\ lines = <<>>
  /\ idx = 0
  /\ comments = <<>>
  /\ generalCommentBody = <<>>
  /\ reviewBody = <<>>
  /\ calls = <<>>
  /\ review = NoReview
  /\ result = NoResult
  /\ githubPostError = ""
  /\ parsed = <<>>

ParseConcat ==
  /\ pc = "concat"
  /\ parsed' = <<ParseResponse(pair[1]), ParseResponse(pair[2]),
                 ParseResponse(pair[1] \o pair[2])>>
  /\ pc' = "concatenated"
  /\ UNCHANGED <<request, data, response, diff, prompt, llmResponseContent,
                 lines, idx, comments, generalCommentBody, reviewBody, calls,
                 review, result, githubPostError, pair>>

NextConcat == ParseConcat

SpecConcat == InitConcat /\ [][NextConcat]_vars

----------------------------------------------------------------------------
(* Vocabulary of the properties *)

Range(f) == {f[k] : k \in DOMAIN f}

\* t occurs in s as a contiguous piece
Contains(s, t) ==
  \E k \in 0..(Len(s) - Len(t)) : SubSeq(s, k + 1, k + Len(t)) = t

\* what a loop iteration appended to the buffer and to the comment list
Added == SubSeq(generalCommentBody', Len(generalCommentBody) + 1,
                Len(generalCommentBody'))
Emitted == SubSeq(comments', Len(comments) + 1, Len(comments'))

\* the loop is about to consume lines[idx + 1]
AtLine == pc = "parse_loop" /\ idx < Len(lines)

\* a line read as <path>:<spec>:<body>, cut at its first two colons
ColonsOf(line) == {k \in 1..Len(line) : line[k] = Colon}
FirstColon(line) == CHOOSE k \in ColonsOf(line) : \A j \in ColonsOf(line) : k <= j
SecondColon(line) ==
  CHOOSE k \in ColonsOf(line) \ {FirstColon(line)} :
    \A j \in ColonsOf(line) \ {FirstColon(line)} : k <= j
PathOf(line) == SubSeq(line, 1, FirstColon(line) - 1)
SpecOf(line) == SubSeq(line, FirstColon(line) + 1, SecondColon(line) - 1)
BodyOf(line) == SubSeq(line, SecondColon(line) + 1, Len(line))

\* <path>:<N>:<body>, path not GENERAL, N a decimal integer
IsPathNumBody(line) ==
  /\ Cardinality(ColonsOf(line)) >= 2
  /\ PathOf(line) # <<"GENERAL">>
  /\ IsDigits(SpecOf(line))

IsRangeComment(c) == "start_line" \in DOMAIN c

----------------------------------------------------------------------------
(* C1: parsing the scenario response                                        *)
(* "src/x.ts:5: add null check\nGENERAL: nice work\nbadline\n" gives the    *)
(* summary "nice work\nbadline" and the one comment src/x.ts, line 5,       *)
(* "add null check": the GENERAL line gives its text without the prefix.    *)
C1_Scenario ==
  (pc = "parsed" /\ llmResponseContent = ScenarioResponse) =>
     /\ reviewBody = <<"nice work", LF, "badline">>
     /\ comments = <<SingleComment(<<"src/x.ts">>, <<"add null check">>, 5)>>

(* C2: no line is dropped: a line that does not match the grammar goes raw  *)
(* into the buffer and emits no comment; of a line that matches, the        *)
(* content of each field is in the buffer or in the comment emitted for     *)
(* the line (the tag GENERAL itself is not content).                        *)
FieldKept(f) ==
  \/ Contains(Added, trim(f))
  \/ /\ Len(Emitted) = 1
     /\ \/ Emitted[1].path = trim(f)
        \/ Emitted[1].body = trim(f)

SpecKept(f) == Contains(Added, trim(f)) \/ Len(Emitted) = 1

C2_NoLineDropped ==
  [][AtLine =>
       LET line == lines[idx + 1]
           m == commentMatch(line)
       IN  IF ~m.matched
           THEN Added = line \o <<LF>> /\ Emitted = <<>>
           ELSE /\ trim(m.g1) = <<"GENERAL">> \/ FieldKept(m.g1)
                /\ SpecKept(m.g2)
                /\ FieldKept(m.g3)]_vars

(* C3 as stated: a line <path>:<N>:<body>, path without colon and not       *)
(* GENERAL, N a decimal integer, emits exactly the comment (path, N, body   *)
(* trimmed, RIGHT) and adds nothing to the buffer.                          *)
C3_AsStated ==
  [][(AtLine /\ IsPathNumBody(lines[idx + 1])) =>
       LET line == lines[idx + 1]
       IN  /\ Emitted = <<SingleComment(PathOf(line), trim(BodyOf(line)),
                                        parseInt(SpecOf(line)))>>
           /\ Added = <<>>]_vars

\* the lines C3 holds of: the path is not empty and is not GENERAL once
\* trimmed, and the body holds no line terminator
IsPositionedLine(line) ==
  /\ IsPathNumBody(line)
  /\ PathOf(line) # <<>>
  /\ trim(PathOf(line)) # <<"GENERAL">>
  /\ \A k \in 1..Len(BodyOf(line)) : BodyOf(line)[k] \notin LineTerminators

(* C3: a line <path>:<N>:<body> whose path is not empty, holds no colon and *)
(* is not GENERAL once trimmed, whose N is a decimal integer and whose body *)
(* holds no carriage return, emits exactly the comment (path trimmed, N,    *)
(* body trimmed, RIGHT) and adds nothing to the buffer.                     *)
C3_PositionedLine ==
  [][(AtLine /\ IsPositionedLine(lines[idx + 1])) =>
       LET line == lines[idx + 1]
       IN  /\ Emitted = <<SingleComment(trim(PathOf(line)), trim(BodyOf(line)),
                                        parseInt(SpecOf(line)))>>
           /\ Added = <<>>]_vars

\* the loop has just consumed such a line, with a padded path and a number
\* of two digits, and its comment is the last of the list
C3_Witness ==
  /\ pc = "parse_loop"
  /\ idx >= 1
  /\ IsPositionedLine(lines[idx])
  /\ PathOf(lines[idx]) # trim(PathOf(lines[idx]))
  /\ Len(SpecOf(lines[idx])) = 2
  /\ comments # <<>>
  /\ comments[Len(comments)].line = parseInt(SpecOf(lines[idx]))
  /\ generalCommentBody = <<>>

----------------------------------------------------------------------------
\* the diff is one the reduction applies to
IsLargeDiff(d) == includesMarker(d) /\ textLength(d) > MaxDiffChars

IsChangeLine(line) == startsWith(line, "+") \/ startsWith(line, "-")

(* C4 as stated: the reduction of a diff that holds "diff --git" and is     *)
(* longer than 5000 characters is at most 5000 characters long and every    *)
(* line of it begins with + or -.                                           *)
C4_AsStated ==
  (pc = "reduced" /\ IsLargeDiff(data)) =>
     /\ textLength(diff) <= MaxDiffChars
     /\ \A k \in 1..Len(split(diff, NewLine)) : IsChangeLine(split(diff, NewLine)[k])

(* C4: the reduction of a diff that holds "diff --git" and is longer than   *)
(* 5000 characters is at most 5000 characters long and every line of it     *)
(* that is not empty begins with + or - (the reduction can be empty, and    *)
(* the cut at 5000 characters can fall right after a line feed).            *)
C4_ReducedLines ==
  (pc = "reduced" /\ IsLargeDiff(data)) =>
     /\ textLength(diff) <= MaxDiffChars
     /\ \A k \in 1..Len(split(diff, NewLine)) :
          \/ split(diff, NewLine)[k] = <<>>
          \/ IsChangeLine(split(diff, NewLine)[k])

\* a large diff with a line that is not a change was reduced to several
\* lines and cut at the limit
C4_Witness ==
  /\ pc = "reduced"
  /\ IsLargeDiff(data)
  /\ \E k \in 1..Len(split(data, NewLine)) :
       split(data, NewLine)[k] # <<>> /\ ~IsChangeLine(split(data, NewLine)[k])
  /\ Len(split(diff, NewLine)) >= 2
  /\ textLength(diff) = MaxDiffChars

(* C5: whatever diff was fetched, with or without "diff --git", the diff    *)
(* embedded in the prompt is at most 5000 characters long.                  *)
C5_PromptDiffBounded ==
  pc = "reduced" => textLength(prompt.diff) <= MaxDiffChars

(* C6: every range comment the parser emits has start_line <= line.         *)
C6_RangeOrdered ==
  \A k \in 1..Len(comments) :
    IsRangeComment(comments[k]) => comments[k].start_line <= comments[k].line

----------------------------------------------------------------------------
\* the arguments have the declared types: owner and repo strings,
\* pull_number an integer
WellTyped(req) ==
  /\ req.hasArgs
  /\ req.owner.t = "string"
  /\ req.repo.t = "string"
  /\ req.pull_number.t = "number"
  /\ req.pull_number.v \in {"0", "7", "42"}

(* C7: an invocation of the tool in which owner, repo or pull_number is     *)
(* missing or of the wrong type is rejected with InvalidParams and no       *)
(* external call is made for it.                                            *)
C7_IllTypedRejected ==
  (pc # "idle" /\ request.name = ToolName /\ ~WellTyped(request)) =>
     /\ calls = <<>>
     /\ result.kind = "McpError"
     /\ result.code = "InvalidParams"

CallOrder == <<"pulls.get", "axios.post", "create_pull_request_review">>

Ended == pc \in {"error", "done"}

\* the calls made so far are the first stages, once each and in order, and
\* each was made after the stage before it had returned what the next needs
C8_CallsInOrder ==
  /\ Len(calls) <= Len(CallOrder)
  /\ calls = SubSeq(CallOrder, 1, Len(calls))
  /\ Len(calls) >= 2 => data # <<>>
  /\ Len(calls) >= 3 => (response.shape = "text" /\ response.content # <<>>)
  /\ pc = "fetching" => Len(calls) = 1
  /\ pc = "calling_model" => Len(calls) = 2
  /\ pc = "posting" => Len(calls) = 3

\* a step makes at most one call; the step that ends the request with an
\* error makes none, and none is made once the request has ended; a step of
\* a waiting request that makes no call ends it
C8_StepOrder ==
  /\ calls' = calls \/ (Len(calls') = Len(calls) + 1 /\ SubSeq(calls', 1, Len(calls)) = calls)
  /\ pc' = "error" => calls' = calls
  /\ Ended => (calls' = calls /\ pc' = pc)
  /\ (pc \in {"fetching", "calling_model", "posting"} /\ calls' = calls)
       => (pc' \in {"error", "done"} /\ result'.kind # "none")
  /\ pc' = "done" => pc = "posting"

(* C8: within a request the external calls are made at most once each, in   *)
(* the order diff fetch, model call, review post; a call is made only after *)
(* the one before it returned successfully; a failure of a call ends the    *)
(* request with an error, without a retry and without a later stage.        *)
C8_SequentialCalls == [](C8_CallsInOrder) /\ [][C8_StepOrder]_vars

\* the model call failed after a successful fetch: the request ended with
\* an error, two calls made, nothing posted
C8_Witness ==
  /\ pc = "error"
  /\ calls = <<"pulls.get", "axios.post">>
  /\ response = NoResponse
  /\ result.kind = "McpError"
  /\ ~review.posted

\* the success body has no completion text: the path to content breaks or
\* the content is the empty string
ContentMissing(r) ==
  \/ r.shape \in {"no_data", "no_choices", "empty_choices", "no_message", "no_content"}
  \/ r.shape = "text" /\ r.content = <<>>

(* C9: when the model gateway answers with a success whose                  *)
(* choices[0].message.content is missing or empty, the request fails with   *)
(* an error, the parser is not run and the review post is never made.       *)
C9_NoContentNoReview ==
  ContentMissing(response) =>
     /\ pc = "error"
     /\ result.kind = "McpError"
     /\ result.code = "InternalError"
     /\ lines = <<>>
     /\ comments = <<>>
     /\ ~review.posted
     /\ "create_pull_request_review" \notin Range(calls)

\* the gateway answered with the empty string as content
C9_Witness ==
  /\ response.shape = "text"
  /\ response.content = <<>>
  /\ pc = "error"
  /\ calls = <<"pulls.get", "axios.post">>

----------------------------------------------------------------------------
EndsWithLF(t) == t # <<>> /\ t[Len(t)] = LF

\* the response gave general text: its summary is not the default
HasGeneralText(p) == trim(p.generalCommentBody) # <<>>

\* s is a, then white space only, then b
SeparatedByWhiteSpace(s, a, b) ==
  /\ Len(s) >= Len(a) + Len(b)
  /\ SubSeq(s, 1, Len(a)) = a
  /\ SubSeq(s, Len(s) - Len(b) + 1, Len(s)) = b
  /\ \A k \in (Len(a) + 1)..(Len(s) - Len(b)) : s[k] \in WhiteSpace

(* C10 as stated: for two responses A and B, each made of whole lines, the  *)
(* comments of AB are those of A followed by those of B and the summary of  *)
(* AB is the summary of A and the summary of B joined in that order.        *)
C10_AsStated ==
  (pc = "concatenated" /\ EndsWithLF(pair[1]) /\ EndsWithLF(pair[2])) =>
     /\ parsed[3].comments = parsed[1].comments \o parsed[2].comments
     /\ parsed[3].summary = parsed[1].summary \o <<LF>> \o parsed[2].summary

(* C10: for two responses A and B, A ending with a line feed, the comments  *)
(* of AB are those of A followed by those of B; the summary of AB is the    *)
(* summary of A, white space, and the summary of B when both give general   *)
(* text, the summary of the one that gives general text when only one       *)
(* does, and the default when neither does.                                 *)
C10_Concatenation ==
  (pc = "concatenated" /\ EndsWithLF(pair[1])) =>
     /\ parsed[3].comments = parsed[1].comments \o parsed[2].comments
     /\ IF HasGeneralText(parsed[1]) /\ HasGeneralText(parsed[2])
        THEN SeparatedByWhiteSpace(parsed[3].summary, parsed[1].summary,
                                   parsed[2].summary)
        ELSE IF HasGeneralText(parsed[1]) THEN parsed[3].summary = parsed[1].summary
        ELSE IF HasGeneralText(parsed[2]) THEN parsed[3].summary = parsed[2].summary
        ELSE parsed[3].summary = DefaultBody

\* A gives a comment and only blank general text, B gives a comment and
\* general text, and AB was parsed
C10_Witness ==
  /\ pc = "concatenated"
  /\ EndsWithLF(pair[1])
  /\ parsed[1].comments # <<>>
  /\ parsed[2].comments # <<>>
  /\ parsed[1].generalCommentBody # <<>>
  /\ ~HasGeneralText(parsed[1])
  /\ HasGeneralText(parsed[2])
  /\ Len(parsed[3].comments) = 2

----------------------------------------------------------------------------
\* the buffer holds white space only (or nothing)
IsBlank(s) == \A k \in 1..Len(s) : s[k] \in WhiteSpace

\* s from its first to its last atom that is not white space
Stripped(s) ==
  LET ink == {k \in 1..Len(s) : s[k] \notin WhiteSpace}
  IN  IF ink = {} THEN <<>>
      ELSE SubSeq(s, CHOOSE k \in ink : \A j \in ink : k <= j,
                     CHOOSE k \in ink : \A j \in ink : k >= j)

\* s up to its last atom that is not white space
StrippedAtEnd(s) ==
  LET ink == {k \in 1..Len(s) : s[k] \notin WhiteSpace}
  IN  IF ink = {} THEN <<>>
      ELSE SubSeq(s, 1, CHOOSE k \in ink : \A j \in ink : k >= j)

(* C11 as stated: once every line is consumed the summary is the default    *)
(* exactly when the buffer is empty, and is otherwise the buffer with only  *)
(* its trailing white space removed.                                        *)
C11_AsStated ==
  pc = "parsed" =>
     /\ (reviewBody = DefaultBody) <=> (generalCommentBody = <<>>)
     /\ generalCommentBody # <<>> => reviewBody = StrippedAtEnd(generalCommentBody)

(* C11: once every line is consumed the summary is the default when the     *)
(* buffer is empty or holds white space only, and is otherwise the buffer   *)
(* with its leading and its trailing white space removed.                   *)
C11_Summary ==
  pc = "parsed" =>
     IF IsBlank(generalCommentBody)
     THEN reviewBody = DefaultBody
     ELSE reviewBody = Stripped(generalCommentBody)

\* a buffer that begins with white space and holds text was turned into the
\* summary
C11_Witness ==
  /\ pc = "parsed"
  /\ ~IsBlank(generalCommentBody)
  /\ generalCommentBody[1] \in WhiteSpace
  /\ reviewBody # generalCommentBody
  /\ reviewBody[1] \notin WhiteSpace

----------------------------------------------------------------------------
\* the completion text passed the shape check and was parsed
ResponseParsed == response.shape = "text" /\ response.content # <<>>

\* digits, a dash, digits
IsDigitsDashDigits(info) ==
  \E d \in 1..Len(info) :
    /\ info[d] = Dash
    /\ IsDigits(SubSeq(info, 1, d - 1))
    /\ IsDigits(SubSeq(info, d + 1, Len(info)))

\* a line that matches the grammar and names a file
IsFileLine(line) ==
  commentMatch(line).matched /\ trim(commentMatch(line).g1) # <<"GENERAL">>

\* a line that matches, names a file, and whose line specification is
\* neither digits nor digits-dash-digits
IsUnparsedSpecLine(line) ==
  /\ IsFileLine(line)
  /\ ~IsDigits(trim(commentMatch(line).g2))
  /\ ~IsDigitsDashDigits(trim(commentMatch(line).g2))

\* File: <path>, Line Info: <spec>: <body>
FallbackText(line) ==
  LET m == commentMatch(line)
  IN  <<"File", Colon, Space>> \o trim(m.g1)
        \o <<",", Space, "Line Info", Colon, Space>> \o trim(m.g2)
        \o <<Colon, Space>> \o trim(m.g3) \o <<LF>>

(* C12: a matching line whose path is not GENERAL and whose line            *)
(* specification is neither digits nor digits-dash-digits emits no comment  *)
(* (the comments are those of the other file lines), puts the line          *)
(* "File: <path>, Line Info: <spec>: <body>" into the buffer, and does not  *)
(* fail the request: the review is handed to the poster, and only the       *)
(* poster can still fail it.                                                *)
C12_UnparsedSpecFallsBack ==
  ResponseParsed =>
     /\ \A i \in 1..Len(lines) :
          IsUnparsedSpecLine(lines[i]) =>
            Contains(generalCommentBody, FallbackText(lines[i]))
     /\ Len(comments) =
          Cardinality({i \in 1..Len(lines) :
                         IsFileLine(lines[i]) /\ ~IsUnparsedSpecLine(lines[i])})
     /\ idx = Len(lines)
     /\ review.posted
     /\ calls = CallOrder
     /\ pc \in {"posting", "done", "error"}
     /\ pc = "error" => githubPostError # ""

\* a response whose fourth line has the line specification "b" and whose
\* fifth line is a comment was parsed, posted and the request succeeded
C12_Witness ==
  /\ pc = "done"
  /\ llmResponseContent = InterleavedResponse
  /\ IsUnparsedSpecLine(lines[4])
  /\ Len(comments) = 3
  /\ comments[3].line = 2
  /\ Contains(review.body, <<"Line Info", Colon, Space, "b", Colon, Space, "c">>)

----------------------------------------------------------------------------
\* what each line gives on its own, put together in the order of the lines
RECURSIVE CommentsInOrder(_)
CommentsInOrder(ls) ==
  IF ls = <<>> THEN <<>>
  ELSE ParseLine(Head(ls), EmptyAcc).comments \o CommentsInOrder(Tail(ls))

RECURSIVE FragmentsInOrder(_)
FragmentsInOrder(ls) ==
  IF ls = <<>> THEN <<>>
  ELSE ParseLine(Head(ls), EmptyAcc).generalCommentBody \o FragmentsInOrder(Tail(ls))

(* C13: the comments are in the order of the response lines that gave them, *)
(* and so are the fragments of the buffer; the summary is a piece of the    *)
(* buffer (or the default), so its fragments keep that order.               *)
C13_OrderPreserved ==
  ResponseParsed =>
     /\ comments = CommentsInOrder(lines)
     /\ generalCommentBody = FragmentsInOrder(lines)
     /\ reviewBody = DefaultBody \/ Contains(generalCommentBody, reviewBody)
     /\ review.comments = comments
     /\ review.body = reviewBody

\* the response with three different comments and two different fragments,
\* interleaved, was parsed
C13_Witness ==
  /\ pc = "posting"
  /\ llmResponseContent = InterleavedResponse
  /\ Len(review.comments) = 3
  /\ review.comments[1].line = 1
  /\ IsRangeComment(review.comments[2])
  /\ review.comments[3].line = 2
  /\ review.body[1] = "b"
  /\ review.body[Len(review.body)] = "c"

----------------------------------------------------------------------------
(* C14: for every response text that passes the shape check, blank ones     *)
(* included, the summary handed to the poster is not the empty string and   *)
(* the comments handed to it are a list.                                    *)
C14_ReviewWellFormed ==
  ResponseParsed =>
     /\ review.posted
     /\ review.body # <<>>
     /\ \A k \in 1..Len(review.body) : review.body[k] # ""
     /\ DOMAIN review.comments = 1..Len(review.comments)
     /\ Len(review.comments) <= Len(lines)

\* a response of blank lines only was handed to the poster with the default
\* summary and the empty list
C14_Witness ==
  /\ pc = "posting"
  /\ llmResponseContent = BlankResponse
  /\ review.posted
  /\ review.body = DefaultBody
  /\ review.comments = <<>>

----------------------------------------------------------------------------
\* the invocation passed the checks of lines 89-115
Validated ==
  request.name = ToolName /\ request.hasArgs /\ ArgsAccepted(request)

WrapPrefix == "Failed to review pull request: "

\* the messages of the failures each stage can meet
FetchFailures ==
  {r.message : r \in {o \in FetchOutcomes : ~o.ok}}
    \cup {"Received invalid diff format from GitHub API"}
ModelFailures ==
  {r.message : r \in {o \in ModelOutcomes : ~o.ok}}
    \cup {"Invalid response format from OpenRouter API",
          "llmResponseContent.split is not a function"}
PostFailures == {r.message : r \in {o \in PostOutcomes : ~o.ok}}

\* the outcome of a validated request: none while it runs; the success
\* result only when the post was made and threw nothing; otherwise one
\* InternalError that wraps a message
C15_Outcome ==
  /\ (Validated /\ ~Ended) => result = NoResult
  /\ pc = "done" =>
       /\ result.kind = "content"
       /\ calls = CallOrder
       /\ review.posted
       /\ githubPostError = ""
  /\ result.kind = "content" => pc = "done"
  /\ (Validated /\ pc = "error") =>
       /\ result.kind = "McpError"
       /\ result.code = "InternalError"
       /\ Len(result.message) >= 2
       /\ result.message[1] = WrapPrefix
  /\ githubPostError # "" =>
       /\ pc = "error"
       /\ githubPostError \in PostFailures
       /\ result.message =
            <<WrapPrefix, "Failed to post review comments to GitHub: ", githubPostError>>

\* the outcome is set once, and the error of a failed stage carries the
\* message of that stage's failure
C15_Step ==
  /\ result # NoResult => result' = result
  /\ pc' = "done" => pc = "posting"
  /\ (pc = "fetching" /\ pc' = "error") =>
       \E m \in FetchFailures : result'.message = <<WrapPrefix, "GitHub API error: ", m>>
  /\ (pc = "calling_model" /\ pc' = "error") =>
       \E m \in ModelFailures : result'.message = <<WrapPrefix, m>>
  /\ (pc = "posting" /\ pc' = "error") => githubPostError' # ""

(* C15: a request that passes the validation ends either with the success   *)
(* result, which is returned only when the review post was made and         *)
(* completed without error, or with one internal error that wraps the       *)
(* message of the failure; a failure of the fetch, the model call or the    *)
(* post never gives the success result.                                     *)
C15_OneOutcome == [](C15_Outcome) /\ [][C15_Step]_vars

\* the poster rejected the review: the request ended with the wrapped error
C15_Witness ==
  /\ pc = "error"
  /\ Validated
  /\ calls = CallOrder
  /\ githubPostError = "Validation Failed"
  /\ result.code = "InternalError"

====
